---- MODULE Spec2Model ----
(***************************************************************************)
(* Model of genamorph.py: incremental stochastic placement of atoms in a   *)
(* periodic cell (create_amorphous_structure and the functions it calls).  *)
(*                                                                         *)
(* Number representation.  The source computes in floating point; the      *)
(* model computes exactly, on inputs chosen from dyadic grids on which the *)
(* comparisons of the source have the same outcome:                        *)
(*   - a cell extent is an integer number of quarter Angstroms;            *)
(*   - a value of np.random.rand() is a number of quarters, k/4, 0 <= k<4; *)
(*   - a coordinate is an integer number of sixteenths of an Angstrom      *)
(*     (a quarter draw times a quarter extent);                            *)
(*   - a distance is kept as its square, in 1/256 A^2 (np.sqrt is strictly *)
(*     increasing, so every comparison of distances in the source is the   *)
(*     same comparison of the squares);                                    *)
(*   - a covalent radius is in hundredths of an Angstrom;                  *)
(*   - masses, volumes and densities are exact fractions <<num, den>>;     *)
(*     the density is in amu/A^3, which is the source's target_density     *)
(*     (g/cm^3) times 1e-24/mcf, the factor of lines 60 and 65.            *)
(***************************************************************************)
EXTENDS Integers, Sequences, FiniteSets, TLC

VARIABLES
    atomic_symbols,   \* argument: sequence of <<symbol, stoichiometry>>, in dict order
    cell_size,        \* argument: <<ex, ey, ez>>, quarter Angstroms
    target_density,   \* argument: fraction <<n, d>>, amu/A^3
    max_attempts,     \* argument of create_amorphous_structure (line 107)
    pc,               \* position in create_amorphous_structure
    num_atoms,        \* line 109
    atom_counts,      \* line 122
    sp,               \* index of the species of the outer loop (line 131)
    cnt,              \* iterations of the inner loop done for species sp (line 132)
    symbols,          \* atoms.get_chemical_symbols()
    positions,        \* the list positions (lines 127, 140)
    warnings,         \* times line 143 printed its warning
    attempt,          \* iterations of the selector's loop done (line 93)
    best_pos,         \* line 90 / 100; <<>> stands for None
    max_score,        \* line 91 / 101; -1 stands for -inf
    drawn,            \* history: the candidates drawn in the current selector call
    new_pos,          \* the value select_position_metropolis returned (line 134)
    via_fallback,     \* history: new_pos came from the fallback of line 103
    fallback,         \* history: fallback[i] iff particle i came from the fallback of line 103
    g_p1, g_p2, g_cell,   \* the arguments of minimum_image_distance, measured on its own
    g_out                 \* <<d(p1, p2), d(p2, p1), cdist(p1, p2)>> once measured

buildVars == <<atomic_symbols, cell_size, target_density, max_attempts, pc, num_atoms,
               atom_counts, sp, cnt, symbols, positions, warnings, attempt, best_pos,
               max_score, drawn, new_pos, via_fallback, fallback>>
geomVars == <<g_p1, g_p2, g_cell, g_out>>
vars == <<buildVars, geomVars>>

----------------------------------------------------------------------------
(* Bounds of the model *)

\* No build of the model plans more atoms than this.
MaxAtoms == 3
\* Iterations of the selector's trial loop: select_position_metropolis's default
\* max_attempts (1_000 at line 82), which is what every call of line 134 gets,
\* scaled down to keep the trial histories enumerable.
SelectorAttempts == 2

\* The values of np.random.rand(3) the model draws, in quarters: each component is
\* 0 or 0.75.
RandDraws == { <<0, 0, 0>>, <<3, 3, 3>>, <<3, 3, 0>>, <<0, 3, 3>> }

None == <<>>
NegInf == -1

----------------------------------------------------------------------------
(* Exact fractions *)

Abs(x) == IF x < 0 THEN -x ELSE x

\* Functions, so that an argument is evaluated once, before the application.
gcd[a \in Nat, b \in Nat] == IF b = 0 THEN a ELSE gcd[b, a % b]

\* n/d in lowest terms with a positive denominator.
frac[n \in Int, d \in Int] ==
    LET s == IF d < 0 THEN -1 ELSE 1
        g == gcd[Abs(n), Abs(d)]
    IN  <<(s * n) \div g, (s * d) \div g>>

rmul[x \in Int \X Int, y \in Int \X Int] == frac[x[1] * y[1], x[2] * y[2]]
rdiv[x \in Int \X Int, y \in Int \X Int] == frac[x[1] * y[2], x[2] * y[1]]
radd[x \in Int \X Int, y \in Int \X Int] == frac[x[1] * y[2] + y[1] * x[2], x[2] * y[2]]

Frac(n, d) == frac[n, d]
RMul(x, y) == rmul[x, y]
RDiv(x, y) == rdiv[x, y]
RAdd(x, y) == radd[x, y]
RInt(k) == <<k, 1>>

RECURSIVE RSum(_)
RSum(s) == IF s = <<>> THEN RInt(0) ELSE RAdd(s[1], RSum(Tail(s)))

RECURSIVE ISum(_)
ISum(s) == IF s = <<>> THEN 0 ELSE s[1] + ISum(Tail(s))

----------------------------------------------------------------------------
(* ase.data, as the source reads it *)

\* covalent_radii[atomic_numbers[symbol]], hundredths of an Angstrom.
covalent_radius(symbol) ==
    CASE symbol = "Si" -> 111
      [] symbol = "H"  -> 31

\* atomic_masses[atomic_numbers[symbol]], amu: 28.085 and 1.008.
atomic_mass(symbol) ==
    CASE symbol = "Si" -> <<5617, 200>>
      [] symbol = "H"  -> <<126, 125>>

\* get_combined_bond_length, hundredths of an Angstrom.
get_combined_bond_length(symbol1, symbol2) ==
    covalent_radius(symbol1) + covalent_radius(symbol2)

----------------------------------------------------------------------------
(* minimum_image_distance (lines 31-35) *)

\* 0.5 * cell_size and cell_size in sixteenths: 2 * e and 4 * e for an extent of e quarters.
wrapped_delta(delta, e) == IF delta > 2 * e THEN 4 * e - delta ELSE delta

SumSq(d) == d[1] * d[1] + d[2] * d[2] + d[3] * d[3]

\* A slip: the sign of the difference kept (np.abs dropped).
minimum_image_distance_noabs(position1, position2, cell) ==
    SumSq([a \in 1..3 |-> wrapped_delta(position1[a] - position2[a], cell[a])])

\* A slip: the wrap-around of line 34 dropped.
minimum_image_distance_nowrap(position1, position2, cell) ==
    SumSq([a \in 1..3 |-> Abs(position1[a] - position2[a])])

\* The square of the value returned at line 35.
minimum_image_distance(position1, position2, cell) ==
    SumSq([a \in 1..3 |-> wrapped_delta(Abs(position1[a] - position2[a]), cell[a])])

\* cdist: the square of the Euclidean distance, no periodic images.
cdist(position1, position2) ==
    SumSq([a \in 1..3 |-> Abs(position1[a] - position2[a])])

----------------------------------------------------------------------------
(* is_position_allowed (lines 38-54) *)

\* min_factor = 1.1, the default of line 39; no caller passes another value.
MinFactorNum == 11
MinFactorDen == 10

\* dist < min_dist_allowed (line 52), with dist = sqrt(d2)/16 A and
\* min_dist_allowed = (bond/100) * 1.1 A:  sqrt(d2) * 25 * 10 < 4 * 11 * bond.
too_close(d2, bond) ==
    d2 * (25 * MinFactorDen) * (25 * MinFactorDen)
        < (4 * MinFactorNum * bond) * (4 * MinFactorNum * bond)

is_position_allowed(pos, existing_positions, symbol, existing_symbols, cell) ==
    IF existing_positions = <<>>
    THEN TRUE
    ELSE \A i \in 1..Len(existing_positions) :
            ~too_close(minimum_image_distance(pos, existing_positions[i], cell),
                       get_combined_bond_length(symbol, existing_symbols[i]))

----------------------------------------------------------------------------
(* calculate_required_atoms (lines 57-72) and the counts of lines 120-125 *)

\* np.round: to the nearest integer, a tie to the even one.
round_half_even[n \in Int, d \in Int] ==
    LET q == n \div d
        r == n % d
    IN  IF 2 * r < d THEN q
        ELSE IF 2 * r > d THEN q + 1
        ELSE IF q % 2 = 0 THEN q ELSE q + 1

np_round(x) == round_half_even[x[1], x[2]]

\* np.prod(cell_size), A^3, for extents in quarter Angstroms.
cell_volume(cell) == Frac(cell[1] * cell[2] * cell[3], 64)

calculate_required_atoms(syms, cell, density) ==
    LET total_mass(i) == RMul(atomic_mass(syms[i][1]), RInt(syms[i][2]))
        num_formula_units(i) == RDiv(RMul(density, cell_volume(cell)), total_mass(i))
        total_atoms == [i \in 1..Len(syms) |-> RMul(RInt(syms[i][2]), num_formula_units(i))]
    IN  np_round(RSum(total_atoms))

\* A slip: the weights used as they are, not divided by their sum.
stoichiometry_ratios_unnormalised(syms) ==
    [i \in 1..Len(syms) |-> RInt(syms[i][2])]

\* Line 121.
stoichiometry_ratios(syms) ==
    LET total == ISum([i \in 1..Len(syms) |-> syms[i][2]])
    IN  [i \in 1..Len(syms) |-> Frac(syms[i][2], total)]

\* Line 122.
compute_atom_counts(syms, n) ==
    LET ratios == stoichiometry_ratios(syms)
    IN  [i \in 1..Len(syms) |-> np_round(RMul(ratios[i], RInt(n)))]

----------------------------------------------------------------------------
(* select_position_metropolis (lines 75-103) *)

\* np.random.rand(3) * cell_size (lines 87 and 103), sixteenths of an Angstrom.
uniform_position(rnd, cell) == [a \in 1..3 |-> rnd[a] * cell[a]]

\* np.random.rand(3) * (cell_size - 1) + 0.5 (line 94): 1 A is 4 quarters, 0.5 A is
\* 8 sixteenths.
candidate_position(rnd, cell) == [a \in 1..3 |-> rnd[a] * (cell[a] - 4) + 8]

Min(S) == CHOOSE m \in S : \A x \in S : m <= x

\* np.min(cdist([new_pos], existing_positions)[0]) / temperature (lines 97-98), as
\* its square: temperature = 0.1 (line 81), so the square is multiplied by 10 * 10.
position_score(pos, existing_positions) ==
    Min({cdist(pos, existing_positions[i]) : i \in 1..Len(existing_positions)}) * (10 * 10)

\* A slip: >= for >, which lets a later candidate displace an equal earlier one.
score_improves_or_ties(score, best) == score >= best

\* score > max_score (line 99).
score_improves(score, best) == score > best

\* A slip: no fallback, None returned when no trial was allowed.
selector_result_no_fallback(best, rnd, cell) == best

\* Line 103.
selector_result(best, rnd, cell) ==
    IF best # None THEN best ELSE uniform_position(rnd, cell)

----------------------------------------------------------------------------
(* create_amorphous_structure (lines 106-147) *)

\* A slip: the new element put in front.
list_prepend(list, x) == <<x>> \o list

\* positions.append(new_pos) and atoms += Atoms([symbol], ...) (lines 139-140).
list_append(list, x) == Append(list, x)

Stoichiometries ==
    { << <<"Si", 1>> >>,
      << <<"H", 1>> >>,
      << <<"Si", 1>>, <<"H", 1>> >>,
      << <<"Si", 1>>, <<"H", 2>> >> }

\* Extents in quarter Angstroms: 4 A, 0.25 A, 0 A, 1 A and 0.75 A.
CellSizes ==
    { <<16, 16, 16>>, <<1, 16, 16>>, <<0, 16, 16>>, <<4, 4, 4>>, <<3, 16, 16>> }

\* amu/A^3.
Densities ==
    { <<-1, 1>>, <<1, 32>>, <<3, 64>>, <<1, 2>>, <<1, 1>>, <<3, 2>>, <<14, 1>>, <<56, 1>> }

\* Values of the max_attempts argument: a small one and the default of line 107.
MaxAttemptsArgs == {1, 1000000}

planned_total(syms, cell, density) ==
    ISum(compute_atom_counts(syms, calculate_required_atoms(syms, cell, density)))

Init ==
    /\ atomic_symbols \in Stoichiometries
    /\ cell_size \in CellSizes
    /\ target_density \in Densities
    /\ max_attempts \in MaxAttemptsArgs
    /\ planned_total(atomic_symbols, cell_size, target_density) <= MaxAtoms
    /\ pc = "start"
    /\ num_atoms = 0
    /\ atom_counts = <<>>
    /\ sp = 1
    /\ cnt = 0
    /\ symbols = <<>>
    /\ positions = <<>>
    /\ warnings = 0
    /\ attempt = 0
    /\ best_pos = None
    /\ max_score = NegInf
    /\ drawn = <<>>
    /\ new_pos = None
    /\ via_fallback = FALSE
    /\ fallback = <<>>
    /\ g_p1 = None /\ g_p2 = None /\ g_cell = None /\ g_out = None

args == <<atomic_symbols, cell_size, target_density, max_attempts>>
selectorVars == <<attempt, best_pos, max_score, drawn, new_pos, via_fallback>>

\* Lines 109-128: the counts, and the ValueError of line 125.  num_atoms is a
\* Python int, so the test of line 111 is never true.
Plan ==
    /\ pc = "start"
    /\ LET n == calculate_required_atoms(atomic_symbols, cell_size, target_density)
           counts == compute_atom_counts(atomic_symbols, n)
       IN  /\ num_atoms' = n
           /\ atom_counts' = counts
           /\ pc' = IF \E i \in 1..Len(counts) : counts[i] < 0
                    THEN "error" ELSE "loop"
    /\ UNCHANGED <<args, sp, cnt, symbols, positions, warnings, selectorVars, fallback, geomVars>>

\* Line 132 exhausted for the species of line 131: on to the next species.
NextSpecies ==
    /\ pc = "loop"
    /\ sp <= Len(atomic_symbols)
    /\ cnt >= atom_counts[sp]
    /\ sp' = sp + 1
    /\ cnt' = 0
    /\ UNCHANGED <<args, pc, num_atoms, atom_counts, symbols, positions, warnings,
                   selectorVars, fallback, geomVars>>

\* Lines 133-136 and 85-88: the selector called with no existing position.
SelectFirst ==
    /\ pc = "loop"
    /\ sp <= Len(atomic_symbols)
    /\ cnt < atom_counts[sp]
    /\ positions = <<>>
    /\ \E rnd \in RandDraws : new_pos' = uniform_position(rnd, cell_size)
    /\ via_fallback' = FALSE
    /\ drawn' = <<>>
    /\ attempt' = 0
    /\ best_pos' = None
    /\ max_score' = NegInf
    /\ pc' = "returned"
    /\ UNCHANGED <<args, num_atoms, atom_counts, sp, cnt, symbols, positions, warnings,
                   fallback, geomVars>>

\* Lines 133-136 and 90-91: the selector called with existing positions.
BeginSelect ==
    /\ pc = "loop"
    /\ sp <= Len(atomic_symbols)
    /\ cnt < atom_counts[sp]
    /\ positions # <<>>
    /\ attempt' = 0
    /\ best_pos' = None
    /\ max_score' = NegInf
    /\ drawn' = <<>>
    /\ new_pos' = None
    /\ via_fallback' = FALSE
    /\ pc' = "select"
    /\ UNCHANGED <<args, num_atoms, atom_counts, sp, cnt, symbols, positions, warnings,
                   fallback, geomVars>>

\* One iteration of the loop of lines 93-101.
Trial ==
    /\ pc = "select"
    /\ attempt < SelectorAttempts
    /\ \E rnd \in RandDraws :
          LET cand == candidate_position(rnd, cell_size)
              score == position_score(cand, positions)
              take == /\ is_position_allowed(cand, positions, atomic_symbols[sp][1],
                                             symbols, cell_size)
                      /\ score_improves(score, max_score)
          IN  /\ drawn' = Append(drawn, cand)
              /\ best_pos' = IF take THEN cand ELSE best_pos
              /\ max_score' = IF take THEN score ELSE max_score
    /\ attempt' = attempt + 1
    /\ UNCHANGED <<args, pc, num_atoms, atom_counts, sp, cnt, symbols, positions, warnings,
                   new_pos, via_fallback, fallback, geomVars>>

\* Line 103, after the last iteration.
Return ==
    /\ pc = "select"
    /\ attempt >= SelectorAttempts
    /\ \E rnd \in (IF best_pos # None THEN {<<0, 0, 0>>} ELSE RandDraws) :
          new_pos' = selector_result(best_pos, rnd, cell_size)
    /\ via_fallback' = (best_pos = None)
    /\ pc' = "returned"
    /\ UNCHANGED <<args, num_atoms, atom_counts, sp, cnt, symbols, positions, warnings,
                   attempt, best_pos, max_score, drawn, fallback, geomVars>>

\* Lines 138-144: the particle appended, or the warning and the break.
Place ==
    /\ pc = "returned"
    /\ IF new_pos # None
       THEN /\ symbols' = list_append(symbols, atomic_symbols[sp][1])
            /\ positions' = list_append(positions, new_pos)
            /\ fallback' = Append(fallback, via_fallback)
            /\ cnt' = cnt + 1
            /\ UNCHANGED warnings
       ELSE /\ warnings' = warnings + 1
            /\ cnt' = atom_counts[sp]
            /\ UNCHANGED <<symbols, positions, fallback>>
    \* The selector's frame is gone and new_pos is rebound by the next iteration.
    /\ attempt' = 0
    /\ best_pos' = None
    /\ max_score' = NegInf
    /\ drawn' = <<>>
    /\ new_pos' = None
    /\ via_fallback' = FALSE
    /\ pc' = "loop"
    /\ UNCHANGED <<args, num_atoms, atom_counts, sp, geomVars>>

\* Lines 146-147: every species done, atoms returned.
Finish ==
    /\ pc = "loop"
    /\ sp > Len(atomic_symbols)
    /\ pc' = "done"
    /\ UNCHANGED <<args, num_atoms, atom_counts, sp, cnt, symbols, positions, warnings,
                   selectorVars, fallback, geomVars>>

Next ==
    \/ Plan
    \/ NextSpecies
    \/ SelectFirst
    \/ BeginSelect
    \/ Trial
    \/ Return
    \/ Place
    \/ Finish

Spec == Init /\ [][Next]_vars

\* The build is one sequential call: it takes its next step whenever it has one.
FairSpec == Spec /\ WF_vars(Next)

----------------------------------------------------------------------------
(* minimum_image_distance on its own: any two points, any cell *)

\* Coordinates in sixteenths of an Angstrom, inside and outside the cells below.
GeomCoords == {-24, 0, 40, 72}
GeomPoints == {<<x, y, z>> : x \in GeomCoords, y \in GeomCoords, z \in GeomCoords}
GeomCells == { <<16, 16, 16>>, <<1, 16, 16>>, <<4, 8, 16>> }

InitGeom ==
    /\ g_p1 \in GeomPoints
    /\ g_p2 \in GeomPoints
    /\ g_cell \in GeomCells
    /\ g_out = None
    /\ atomic_symbols = <<>> /\ cell_size = g_cell /\ target_density = RInt(0)
    /\ max_attempts = 0 /\ pc = "geom" /\ num_atoms = 0 /\ atom_counts = <<>>
    /\ sp = 1 /\ cnt = 0 /\ symbols = <<>> /\ positions = <<>> /\ warnings = 0
    /\ attempt = 0 /\ best_pos = None /\ max_score = NegInf /\ drawn = <<>>
    /\ new_pos = None /\ via_fallback = FALSE /\ fallback = <<>>

\* The function called both ways round, and scipy's cdist on the same two points.
Measure ==
    /\ pc = "geom"
    /\ g_out = None
    /\ g_out' = << minimum_image_distance(g_p1, g_p2, g_cell),
                  minimum_image_distance(g_p2, g_p1, g_cell),
                  cdist(g_p1, g_p2) >>
    /\ UNCHANGED <<buildVars, g_p1, g_p2, g_cell>>

NextGeom == Measure

SpecGeom == InitGeom /\ [][NextGeom]_vars

----------------------------------------------------------------------------
(* Properties *)

\* Section 4.1 of the specification: per axis, delta = |p - q|, replaced by
\* extent - delta when delta > extent / 2; the square of the norm, in 1/256 A^2.
SpecMinImage(p, q, cell) ==
    LET dd(a) == LET d == Abs(p[a] - q[a])
                     l == 4 * cell[a]
                 IN  IF 2 * d > l THEN l - d ELSE d
    IN  dd(1) * dd(1) + dd(2) * dd(2) + dd(3) * dd(3)

\* sqrt(d2)/16 A >= 1.1 * (radius_a + radius_b)/100 A.
Separated(d2, sym_a, sym_b) ==
    62500 * d2 >= (44 * (covalent_radius(sym_a) + covalent_radius(sym_b)))
                    * (44 * (covalent_radius(sym_a) + covalent_radius(sym_b)))

\* C1: every particle that did not come from the fallback is, by minimum-image
\* distance, at least 1.1 x (sum of the two radii) away from every particle placed
\* before it; 1.1 is the only min_factor a build can run with.
C1_Separation ==
    \A i \in 1..Len(positions) :
        ~fallback[i] =>
            \A j \in 1..(i - 1) :
                Separated(SpecMinImage(positions[i], positions[j], cell_size),
                          symbols[i], symbols[j])

\* A third particle placed by the constraint, and a pair whose minimum-image
\* distance is shorter than its Euclidean distance.
C1_Witness ==
    /\ Len(positions) >= 3
    /\ ~fallback[3]
    /\ \E i \in 2..Len(positions) : \E j \in 1..(i - 1) :
          /\ ~fallback[i]
          /\ SpecMinImage(positions[i], positions[j], cell_size)
                < cdist(positions[i], positions[j])

NumFallbacks == Cardinality({i \in 1..Len(fallback) : fallback[i]})

\* C2: the finished build reports as many fallback placements as it made.
C2_FallbacksReported ==
    pc = "done" => warnings = NumFallbacks

ZeroVolume == cell_size[1] * cell_size[2] * cell_size[3] = 0

\* C3: on a zero-volume cell the planning step ends the build in an error.
C3_ZeroVolumeRaises ==
    (ZeroVolume /\ pc # "start") => pc = "error"

CountOf(sym) == Cardinality({i \in 1..Len(symbols) : symbols[i] = sym})

\* C4: every build that plans without error ends, and at its end holds exactly the
\* planned count of each species, fallbacks included.
C4_TerminatesWithPlannedCounts ==
    /\ (pc = "loop") ~> (pc = "done")
    /\ [](pc = "done" =>
            /\ \A i \in 1..Len(atomic_symbols) :
                  CountOf(atomic_symbols[i][1]) = atom_counts[i]
            /\ Len(positions) = ISum(atom_counts)
            /\ Len(symbols) = Len(positions))

\* A finished build of several particles, one of them a fallback.
C4_Witness ==
    /\ pc = "done"
    /\ Len(positions) >= 2
    /\ NumFallbacks >= 1

\* The sum over the species of target_density * volume / mass.
UnitsSum ==
    RSum([i \in 1..Len(atomic_symbols) |->
            RDiv(RMul(target_density, <<cell_size[1] * cell_size[2] * cell_size[3], 64>>),
                 atomic_mass(atomic_symbols[i][1]))])

WeightSum == ISum([i \in 1..Len(atomic_symbols) |-> atomic_symbols[i][2]])

\* weight_s x F_s with F_s = target_density x volume / (mass_s x weight_s), rounded.
OwnCount(i) ==
    np_round(RMul(RInt(atomic_symbols[i][2]),
                  RDiv(RMul(target_density, cell_volume(cell_size)),
                       RMul(atomic_mass(atomic_symbols[i][1]), RInt(atomic_symbols[i][2])))))

\* C5 as stated: each species' count is round(weight_s x F_s), its own candidate
\* formula-unit count alone deciding it.
C5_OwnFormulaUnits ==
    pc \in {"loop", "select", "returned", "done"} =>
        \A i \in 1..Len(atomic_symbols) : atom_counts[i] = OwnCount(i)

\* k is the integer nearest to n/d (d > 0), the even one of the two when n/d lies
\* halfway between them.
NearestEven(k, n, d) ==
    /\ 2 * Abs(k * d - n) <= d
    /\ (2 * Abs(k * d - n) = d) => k % 2 = 0

\* C5 amended: the total N is the integer nearest to the sum over all species of
\* weight_t x F_t, and each species' count is the integer nearest to its share
\* weight_s / (sum of weights) of N (halves go to the even integer).
C5_SharedTotal ==
    pc \in {"loop", "select", "returned", "done", "error"} =>
        /\ NearestEven(num_atoms, UnitsSum[1], UnitsSum[2])
        /\ \A i \in 1..Len(atomic_symbols) :
              NearestEven(atom_counts[i], atomic_symbols[i][2] * num_atoms, WeightSum)

\* Two species planned, with counts that differ from their own formula-unit counts.
C5_Witness ==
    /\ pc = "loop"
    /\ Len(atomic_symbols) = 2
    /\ num_atoms >= 2
    /\ \E i \in 1..2 : atom_counts[i] # OwnCount(i)

\* C6: the selector never draws more candidates for one particle than the
\* max_attempts the build was called with.
C6_TrialsWithinBudget ==
    Len(drawn) <= max_attempts

\* C7: every placed coordinate lies in [0, extent) of its axis.
C7_PositionsInBox ==
    \A i \in 1..Len(positions) : \A a \in 1..3 :
        0 <= positions[i][a] /\ positions[i][a] < 4 * cell_size[a]

IsPrefix(s, t) == Len(s) <= Len(t) /\ SubSeq(t, 1, Len(s)) = s

\* C8: a step leaves the placed particles as they are or adds exactly one at the
\* end, and species and positions stay of one length.
C8_AppendOnly ==
    [][ /\ Len(symbols') = Len(positions')
        /\ IsPrefix(positions, positions')
        /\ IsPrefix(symbols, symbols')
        /\ Len(positions') <= Len(positions) + 1 ]_vars

\* A particle of another species at another place appended to a non-empty set.
C8_Witness ==
    /\ Len(positions) >= 2
    /\ positions[2] # positions[1]
    /\ symbols[2] # symbols[1]

\* C9: the minimum-image distance is symmetric in its two points and never greater
\* than their Euclidean distance.
C9_SymmetricAndShort ==
    g_out # None => (g_out[1] = g_out[2] /\ g_out[1] <= g_out[3])

\* Measured with a point outside the cell and the wrap-around taken.
C9_Witness ==
    /\ g_out # None
    /\ \E a \in 1..3 : g_p1[a] < 0 \/ g_p1[a] >= 4 * g_cell[a]
    /\ g_out[1] < g_out[3]
    /\ g_out[1] > 0

AllowedDraws ==
    {k \in 1..Len(drawn) :
        is_position_allowed(drawn[k], positions, atomic_symbols[sp][1], symbols, cell_size)}

\* C10: when a drawn candidate is allowed, the selector returns the allowed
\* candidate of highest score, the earliest drawn among equal scores, and not the
\* fallback.
C10_BestAllowedReturned ==
    (pc = "returned" /\ positions # <<>> /\ AllowedDraws # {}) =>
        /\ ~via_fallback
        /\ \E k \in AllowedDraws :
              /\ new_pos = drawn[k]
              /\ \A j \in AllowedDraws :
                    /\ position_score(drawn[j], positions)
                          <= position_score(drawn[k], positions)
                    /\ (position_score(drawn[j], positions)
                          = position_score(drawn[k], positions)
                        /\ drawn[j] # drawn[k]) => k < j

\* Two existing particles, and two different allowed draws of equal score.
C10_Witness ==
    /\ pc = "returned"
    /\ Len(positions) >= 2
    /\ \E j, k \in AllowedDraws :
          /\ drawn[j] # drawn[k]
          /\ position_score(drawn[j], positions) = position_score(drawn[k], positions)

====
